---- MODULE Spec2Model ----
(***************************************************************************)
(* A model of the ErgoTree IR of sigma-rust: the Upcast and And nodes, the *)
(* MethodCall node, their binary codec, the Upcast evaluation rule, and    *)
(* the Constant literal with its host-value conversions.                   *)
(*                                                                         *)
(* Fixed-width integers (i8, i16, i32, i64) are sequences of bytes in      *)
(* two's complement, most significant byte first, of length 1, 2, 4, 8; a  *)
(* BigInt is such a sequence of minimal length. A widening cast is the     *)
(* sign extension of the byte sequence. The elements of a Vec<i8> are      *)
(* signed numbers -128..127 and those of a Vec<u8> are 0..255.             *)
(***************************************************************************)
EXTENDS Integers, Sequences, FiniteSets, TLC

VARIABLES
    \* evaluation of an Upcast node (impl Evaluable for Upcast)
    node,        \* the Upcast node under evaluation
    ctx,         \* the EvalContext: its cost counter
    input_v,     \* the outcome of self.input.eval(env, ctx)
    result,      \* the outcome of Upcast::eval
    epc,         \* position in Upcast::eval: "start", "input_done", "done"
    \* Constant and host values
    host,        \* the host value handed to Constant::from
    c,           \* the Constant built
    extracted,   \* the outcome of the last try_extract_from
    kpc,         \* "start", "built", "extracted"
    \* codec
    expr,        \* the expression handed to sigma_serialize
    buf,         \* the bytes written / handed to sigma_parse
    parsed,      \* the outcome of Expr::sigma_parse
    cpc,         \* "start", "written", "damaged", "parsed", "parsed_damaged"
    unknown_ids, \* what SMethod::from_ids does with ids that name no method
    alloc,       \* what Vec::with_capacity does with a capacity out of reach
    \* JSON
    json,        \* the JSON value handed to serde_json::from_str
    decoded,     \* the outcome of the deserialization
    jpc          \* "start", "given", "decoded"

vars == <<node, ctx, input_v, result, epc, host, c, extracted, kpc,
          expr, buf, parsed, cpc, unknown_ids, alloc, json, decoded, jpc>>
evalVars == <<node, ctx, input_v, result, epc>>
constVars == <<host, c, extracted, kpc>>
codecVars == <<expr, buf, parsed, cpc, unknown_ids, alloc>>
jsonVars == <<json, decoded, jpc>>

-----------------------------------------------------------------------------
(* Bounds of the model *)

\* the configured cost limit of an evaluation
CostLimit == 2
\* the longest host vector handed to Constant::from
MaxVecLen == 2
\* the largest number of arguments of a MethodCall
MaxArgs == 1

-----------------------------------------------------------------------------
(* SType: a type is the sequence of its constructor names, outermost first *)

SBoolean == <<"SBoolean">>
SByte == <<"SByte">>
SShort == <<"SShort">>
SInt == <<"SInt">>
SLong == <<"SLong">>
SBigInt == <<"SBigInt">>
SGroupElement == <<"SGroupElement">>
SSigmaProp == <<"SSigmaProp">>
SBox == <<"SBox">>
SContext == <<"SContext">>
STypeVar == <<"STypeVar">>
SAny == <<"SAny">>
NoType == <<>>
SColl(elem) == <<"SColl">> \o elem

NumericTypes == {SByte, SShort, SInt, SLong, SBigInt}
PrimTypes == {SBoolean, SByte, SShort, SInt, SLong, SBigInt, SGroupElement, SSigmaProp}

-----------------------------------------------------------------------------
(* Value *)

Val(variant, num, bytes, elem_tpe, items) ==
    [variant |-> variant, num |-> num, bytes |-> bytes,
     elem_tpe |-> elem_tpe, items |-> items]

NoValue == Val("None", <<>>, <<>>, NoType, <<>>)
Scalar(variant, num) == Val(variant, num, <<>>, NoType, <<>>)
BooleanV(b) == Scalar("Boolean", <<IF b THEN 1 ELSE 0>>)
ByteV(n) == Scalar("Byte", n)
ShortV(n) == Scalar("Short", n)
IntV(n) == Scalar("Int", n)
LongV(n) == Scalar("Long", n)
BigIntV(n) == Scalar("BigInt", n)
GroupElementV(p) == Scalar("GroupElement", p)
SigmaPropV(p) == Scalar("SigmaProp", p)
CBoxV(b) == Scalar("CBox", b)
\* Value::Coll(Coll::Primitive(CollPrim::CollByte(bs)))
CollByteV(bs) == Val("CollByte", <<>>, bs, NoType, <<>>)
\* Value::Coll(Coll::NonPrimitive { elem_tpe, v })
CollNonPrimV(elem_tpe, items) == Val("CollNonPrim", <<>>, <<>>, elem_tpe, items)

-----------------------------------------------------------------------------
(* Two's complement numbers *)

SignByte(bs) == IF bs[1] >= 128 THEN 255 ELSE 0

\* bs widened to w bytes, w >= Len(bs): the sign bit fills the new bytes
SignExtend(bs, w) ==
    [i \in 1..w |-> IF i <= w - Len(bs) THEN SignByte(bs) ELSE bs[i - (w - Len(bs))]]

\* bs widened to w bytes with zeros (what a cast through an unsigned type does)
ZeroExtend(bs, w) ==
    [i \in 1..w |-> IF i <= w - Len(bs) THEN 0 ELSE bs[i - (w - Len(bs))]]

\* the low w bytes of bs (what a narrowing cast does)
Truncate(bs, w) == [i \in 1..w |-> bs[i + (Len(bs) - w)]]

RECURSIVE Canon(_)
\* bs without its redundant leading sign bytes
Canon(bs) ==
    IF Len(bs) > 1 /\ (   (bs[1] = 0 /\ bs[2] < 128)
                       \/ (bs[1] = 255 /\ bs[2] >= 128))
    THEN Canon(Tail(bs))
    ELSE bs

\* a and b denote the same number: they agree once widened to a common width
SameNumber(a, b) ==
    LET w == IF Len(a) > Len(b) THEN Len(a) ELSE Len(b)
    IN  SignExtend(a, w) = SignExtend(b, w)

\* v as i16, v as i32, v as i64 (on a narrower signed integer)
as_i16(v) == SignExtend(v, 2)
as_i32(v) == SignExtend(v, 4)
as_i64(v) == SignExtend(v, 8)
\* v.to_bigint().unwrap()
to_bigint(v) == Canon(v)

-----------------------------------------------------------------------------
(* Results *)

\* Ok(v)
Ok(v) == [kind |-> "Ok", v |-> v, err |-> "", text |-> "", arg |-> NoValue]
\* Err(EvalError::UnexpectedValue(format!(text, arg)))
UnexpectedValue(text, arg) ==
    [kind |-> "Err", v |-> NoValue, err |-> "UnexpectedValue", text |-> text, arg |-> arg]
\* the cost-exceeded failure of the cost counter
CostExceeded ==
    [kind |-> "Err", v |-> NoValue, err |-> "CostExceeded", text |-> "", arg |-> NoValue]
NoResult == [kind |-> "None", v |-> NoValue, err |-> "", text |-> "", arg |-> NoValue]

-----------------------------------------------------------------------------
(* Expr: one record shape for every node variant *)

\* SMethod: the owner's type id, the method id, the declared signature's type
SMethodRec(obj_type, method_id, tpe) ==
    [obj_type |-> obj_type, method_id |-> method_id, tpe |-> tpe]
NoMethod == SMethodRec(0, 0, NoType)

Node(op, tpe, v, kids, method) ==
    [op |-> op, tpe |-> tpe, v |-> v, kids |-> kids, method |-> method]
NoExpr == Node("None", NoType, NoValue, <<>>, NoMethod)

\* Expr::Const(Constant { tpe, v })
ConstE(tpe, v) == Node("Const", tpe, v, <<>>, NoMethod)
\* Expr::Context
ContextE == Node("Context", NoType, NoValue, <<>>, NoMethod)
\* Expr::And(And { input })
AndE(input) == Node("And", NoType, NoValue, <<input>>, NoMethod)
\* Expr::Upcast(Upcast { input, tpe })
UpcastE(input, tpe) == Node("Upcast", tpe, NoValue, <<input>>, NoMethod)
\* Expr::MethodCall(MethodCall { obj, method, args }): kids is obj, then args
MethodCallE(obj, method, args) == Node("MethodCall", NoType, NoValue, <<obj>> \o args, method)

-----------------------------------------------------------------------------
(* Upcast evaluation *)

IsNumeric(in_v) == in_v.variant \in {"Byte", "Short", "Int", "Long", "BigInt"}

upcast_to_bigint(in_v) ==
    IF in_v.variant \in {"Byte", "Short", "Int", "Long"}
    THEN Ok(BigIntV(to_bigint(in_v.num)))
    ELSE IF in_v.variant = "BigInt" THEN Ok(in_v)
    ELSE UnexpectedValue("Upcast: cannot upcast {0:?} to Long", in_v)

upcast_to_long_zext(in_v) ==
    IF in_v.variant \in {"Byte", "Short", "Int"}
    THEN Ok(LongV(ZeroExtend(in_v.num, 8)))
    ELSE IF in_v.variant = "Long" THEN Ok(in_v)
    ELSE UnexpectedValue("Upcast: cannot upcast {0:?} to Long", in_v)

upcast_to_long(in_v) ==
    IF in_v.variant \in {"Byte", "Short", "Int"}
    THEN Ok(LongV(as_i64(in_v.num)))
    ELSE IF in_v.variant = "Long" THEN Ok(in_v)
    ELSE UnexpectedValue("Upcast: cannot upcast {0:?} to Long", in_v)

upcast_to_int_narrowing(in_v) ==
    IF in_v.variant \in {"Byte", "Short"}
    THEN Ok(IntV(as_i32(in_v.num)))
    ELSE IF in_v.variant = "Int" THEN Ok(in_v)
    ELSE IF in_v.variant = "Long" THEN Ok(IntV(Truncate(in_v.num, 4)))
    ELSE UnexpectedValue("Upcast: cannot upcast {0:?} to Int", in_v)

upcast_to_int(in_v) ==
    IF in_v.variant \in {"Byte", "Short"}
    THEN Ok(IntV(as_i32(in_v.num)))
    ELSE IF in_v.variant = "Int" THEN Ok(in_v)
    ELSE UnexpectedValue("Upcast: cannot upcast {0:?} to Int", in_v)

upcast_to_short_unconverted(in_v) ==
    IF in_v.variant \in {"Byte", "Short"} THEN Ok(in_v)
    ELSE UnexpectedValue("Upcast: cannot upcast {0:?} to Short", in_v)

upcast_to_short(in_v) ==
    IF in_v.variant = "Byte"
    THEN Ok(ShortV(as_i16(in_v.num)))
    ELSE IF in_v.variant = "Short" THEN Ok(in_v)
    ELSE UnexpectedValue("Upcast: cannot upcast {0:?} to Short", in_v)

upcast_to_byte(in_v) ==
    IF in_v.variant = "Byte" THEN Ok(in_v)
    ELSE UnexpectedValue("Upcast: cannot upcast {0:?} to Byte", in_v)

\* match self.tpe { ... } of Upcast::eval, on the evaluated input
UpcastMatchTpe(tpe, in_v) ==
    IF tpe = SBigInt THEN upcast_to_bigint(in_v)
    ELSE IF tpe = SLong THEN upcast_to_long(in_v)
    ELSE IF tpe = SInt THEN upcast_to_int(in_v)
    ELSE IF tpe = SShort THEN upcast_to_short(in_v)
    ELSE IF tpe = SByte THEN upcast_to_byte(in_v)
    ELSE UnexpectedValue("Upcast: expected numeric value, got {0:?}", in_v)

\* An evaluation's outcome together with the cost counter it leaves
Outcome(r, cost) == [r |-> r, cost |-> cost]

\* The rule of a Constant: one evaluation step, charged to the cost counter
ConstEval(e, cost) ==
    IF cost + 1 > CostLimit
    THEN Outcome(CostExceeded, cost)
    ELSE Outcome(Ok(e.v), cost + 1)

RECURSIVE ExprEval(_, _)
\* Upcast::eval as a whole: the input first (with ?), then the match on self.tpe
UpcastEval(e, cost) ==
    LET in == ExprEval(e.kids[1], cost)
    IN  IF in.r.kind # "Ok"
        THEN in
        ELSE Outcome(UpcastMatchTpe(e.tpe, in.r.v), in.cost)

\* Expr::eval: the rule of the node's variant
ExprEval(e, cost) ==
    IF e.op = "Const" THEN ConstEval(e, cost)
    ELSE IF e.op = "Upcast" THEN UpcastEval(e, cost)
    ELSE Outcome(UnexpectedValue("not evaluated here", NoValue), cost)

-----------------------------------------------------------------------------
(* The values and nodes the evaluation is run on *)

I8Samples == {<<b>> : b \in {0, 1, 127, 128, 255}}
I16Samples == {<<h, l>> : h \in {0, 127, 128, 255}, l \in {0, 128}}
I32Samples == {<<h, m, m, l>> : h \in {0, 128, 255}, m \in {0, 255}, l \in {1, 128}}
I64Samples == {<<h, m, m, m, m, m, m, l>> : h \in {0, 127, 255}, m \in {0, 255}, l \in {1, 128}}
\* BigInts: those of the fixed widths, and one on each side beyond the i64 range
BigIntSamples ==
    {to_bigint(n) : n \in I8Samples \union I16Samples \union I64Samples}
    \union {<<0, 128, 0, 0, 0, 0, 0, 0, 0>>, <<255, 127, 255, 255, 255, 255, 255, 255, 255>>}

NumericValues ==
    {ByteV(n) : n \in I8Samples} \union {ShortV(n) : n \in I16Samples}
    \union {IntV(n) : n \in I32Samples} \union {LongV(n) : n \in I64Samples}
    \union {BigIntV(n) : n \in BigIntSamples}
OtherValues == {BooleanV(TRUE), CollByteV(<<1, -1>>), SigmaPropV(<<1>>)}

\* the SType of a value of the evaluation's samples
ValueTpe(v) ==
    CASE v.variant = "Boolean" -> SBoolean
      [] v.variant = "Byte" -> SByte
      [] v.variant = "Short" -> SShort
      [] v.variant = "Int" -> SInt
      [] v.variant = "Long" -> SLong
      [] v.variant = "BigInt" -> SBigInt
      [] v.variant = "GroupElement" -> SGroupElement
      [] v.variant = "SigmaProp" -> SSigmaProp
      [] v.variant = "CBox" -> SBox
      [] v.variant = "CollByte" -> SColl(SByte)
      [] v.variant = "CollNonPrim" -> SColl(v.elem_tpe)
      [] OTHER -> NoType

UpcastTargets == NumericTypes \union {SBoolean, SColl(SByte), SBox}
EvalConsts == {ConstE(ValueTpe(v), v) : v \in NumericValues \union OtherValues}
\* the input of the node: a constant, or an Upcast of a constant
EvalInputs ==
    EvalConsts \union {UpcastE(k, t) : k \in EvalConsts, t \in {SShort, SLong, SBigInt, SBox}}
EvalNodes == {UpcastE(i, t) : i \in EvalInputs, t \in UpcastTargets}

NoOutcome == Outcome(NoResult, 0)

-----------------------------------------------------------------------------
(* Upcast::eval, step by step *)

EvalIdle ==
    /\ node = NoExpr /\ ctx = 0 /\ input_v = NoOutcome /\ result = NoResult
    /\ epc = "idle"

EvalInit ==
    /\ node \in EvalNodes
    /\ ctx \in 0..CostLimit
    /\ input_v = NoOutcome
    /\ result = NoResult
    /\ epc = "start"

EvalInput_tpe_first ==
    /\ epc = "start"
    /\ IF node.tpe \notin NumericTypes
       THEN /\ result' = UnexpectedValue("Upcast: expected numeric value, got {0:?}", NoValue)
            /\ epc' = "done"
            /\ UNCHANGED <<ctx, input_v>>
       ELSE LET o == ExprEval(node.kids[1], ctx)
            IN  /\ input_v' = o
                /\ ctx' = o.cost
                /\ IF o.r.kind = "Ok"
                   THEN /\ epc' = "input_done"
                        /\ result' = result
                   ELSE /\ epc' = "done"
                        /\ result' = o.r
    /\ UNCHANGED <<node, constVars, codecVars, jsonVars>>

\* let input_v = self.input.eval(env, ctx)?;
EvalInput ==
    /\ epc = "start"
    /\ LET o == ExprEval(node.kids[1], ctx)
       IN  /\ input_v' = o
           /\ ctx' = o.cost
           /\ IF o.r.kind = "Ok"
              THEN /\ epc' = "input_done"
                   /\ result' = result
              ELSE /\ epc' = "done"
                   /\ result' = o.r
    /\ UNCHANGED <<node, constVars, codecVars, jsonVars>>

\* match self.tpe { ... }
EvalMatchTpe ==
    /\ epc = "input_done"
    /\ result' = UpcastMatchTpe(node.tpe, input_v.r.v)
    /\ epc' = "done"
    /\ UNCHANGED <<node, ctx, input_v, constVars, codecVars, jsonVars>>

EvalNext == EvalInput \/ EvalMatchTpe

-----------------------------------------------------------------------------
(* Host values: ty is the host type's name; a scalar is in num, the        *)
(* elements of a byte vector in bytes, those of another vector in elems    *)

HostVal(ty, num, bytes, elems) == [ty |-> ty, num |-> num, bytes |-> bytes, elems |-> elems]
NoHost == HostVal("none", <<>>, <<>>, <<>>)

VecU8 == "alloc::vec::Vec<u8>"
VecI8 == "alloc::vec::Vec<i8>"
VecOf(t) == "alloc::vec::Vec<" \o t \o ">"

ScalarTypes == {"bool", "i8", "i16", "i32", "i64"}
OpaqueTypes == {"SigmaProp", "EcPoint", "ErgoBox"}
\* T: StoredNonPrimitive among the integers (i8 is stored packed)
StoredNonPrimitive == {"i16", "i32", "i64"}
HostTypes ==
    ScalarTypes \union OpaqueTypes \union {VecU8, VecI8}
    \union {VecOf(t) : t \in StoredNonPrimitive}

\* LiftIntoSType::stype() of a host type
stype(ty) ==
    CASE ty = "bool" -> SBoolean
      [] ty = "i8" -> SByte
      [] ty = "i16" -> SShort
      [] ty = "i32" -> SInt
      [] ty = "i64" -> SLong
      [] ty = "SigmaProp" -> SSigmaProp
      [] ty = "EcPoint" -> SGroupElement
      [] ty = "ErgoBox" -> SBox
      [] ty = VecI8 -> SColl(SByte)
      [] ty = VecOf("i16") -> SColl(SShort)
      [] ty = VecOf("i32") -> SColl(SInt)
      [] ty = VecOf("i64") -> SColl(SLong)
      [] OTHER -> NoType

\* the element type's name of a Vec<T> of a T: StoredNonPrimitive
ElemOf(ty) ==
    CASE ty = VecOf("i16") -> "i16"
      [] ty = VecOf("i32") -> "i32"
      [] ty = VecOf("i64") -> "i64"
      [] OTHER -> "none"

\* the Value variant that holds a scalar or opaque host type
VariantOf(ty) ==
    CASE ty = "bool" -> "Boolean"
      [] ty = "i8" -> "Byte"
      [] ty = "i16" -> "Short"
      [] ty = "i32" -> "Int"
      [] ty = "i64" -> "Long"
      [] ty = "SigmaProp" -> "SigmaProp"
      [] ty = "EcPoint" -> "GroupElement"
      [] ty = "ErgoBox" -> "CBox"
      [] OTHER -> "None"

\* impl From<T> for Value, T a scalar or an opaque host type
ValueFromScalar(h) == Scalar(VariantOf(h.ty), h.num)

\* impl Into<Value> for Vec<T>, T: StoredNonPrimitive
ValueFromVec(h) ==
    CollNonPrimV(stype(ElemOf(h.ty)),
                 [i \in 1..Len(h.elems) |-> Scalar(VariantOf(ElemOf(h.ty)), h.elems[i])])

u8_as_i8_saturating(b) == IF b >= 128 THEN 127 ELSE b

\* b as i8
u8_as_i8(b) == IF b >= 128 THEN b - 256 ELSE b
\* FromVecI8::from_vec_i8: each element as u8
from_vec_i8(bs) == [i \in 1..Len(bs) |-> IF bs[i] < 0 THEN bs[i] + 256 ELSE bs[i]]

\* Constant { tpe, v }
Constant(tpe, v) == [tpe |-> tpe, v |-> v]
NoConstant == Constant(NoType, NoValue)

\* impl From<bool>, From<i8>, From<i16>, From<i32>, From<i64> for Constant
ConstantFromScalar(h) == Constant(stype(h.ty), ValueFromScalar(h))
\* impl From<SigmaProp> for Constant
ConstantFromSigmaProp(h) == Constant(SSigmaProp, ValueFromScalar(h))
\* impl From<EcPoint> for Constant
ConstantFromEcPoint(h) == Constant(SGroupElement, ValueFromScalar(h))
\* impl From<ErgoBox> for Constant
ConstantFromErgoBox(h) == Constant(SBox, ValueFromScalar(h))
\* impl From<Vec<u8>> for Constant
ConstantFromVecU8(h) ==
    Constant(SColl(SByte), CollByteV([i \in 1..Len(h.bytes) |-> u8_as_i8(h.bytes[i])]))

ConstantFromVecI8_general(h) ==
    Constant(SColl(SByte),
             CollNonPrimV(SByte, [i \in 1..Len(h.bytes) |-> ByteV(<<from_vec_i8(h.bytes)[i]>>)]))

\* impl From<Vec<i8>> for Constant
ConstantFromVecI8(h) == Constant(SColl(SByte), CollByteV(h.bytes))
\* impl<T: LiftIntoSType + StoredNonPrimitive + Into<Value>> From<Vec<T>> for Constant
ConstantFromVec(h) == Constant(stype(h.ty), ValueFromVec(h))

\* Constant::from(h): the impl the host type selects
ConstantFrom(h) ==
    CASE h.ty \in ScalarTypes -> ConstantFromScalar(h)
      [] h.ty = "SigmaProp" -> ConstantFromSigmaProp(h)
      [] h.ty = "EcPoint" -> ConstantFromEcPoint(h)
      [] h.ty = "ErgoBox" -> ConstantFromErgoBox(h)
      [] h.ty = VecU8 -> ConstantFromVecU8(h)
      [] h.ty = VecI8 -> ConstantFromVecI8(h)
      [] OTHER -> ConstantFromVec(h)

-----------------------------------------------------------------------------
(* Extraction *)

\* Ok(h) of a try_extract_from asked for host type ty
Extracted(ty, h) == [kind |-> "Ok", ty |-> ty, host |-> h, expected |-> "", found |-> NoValue]
\* Err(TryExtractFromError(format!("expected {:?}, found {:?}", expected, found)))
TryExtractFromError(ty, expected, found) ==
    [kind |-> "Err", ty |-> ty, host |-> NoHost, expected |-> expected, found |-> found]
NoExtract == [kind |-> "None", ty |-> "none", host |-> NoHost, expected |-> "", found |-> NoValue]

\* impl TryExtractFrom<Value> for a scalar or an opaque host type
ScalarTryExtractFromValue(ty, v) ==
    IF v.variant = VariantOf(ty)
    THEN Extracted(ty, HostVal(ty, v.num, <<>>, <<>>))
    ELSE TryExtractFromError(ty, ty, v)

\* impl<T: TryExtractFrom<Value> + StoredNonPrimitive> TryExtractFrom<Value> for Vec<T>
VecTryExtractFromValue(ty, v) ==
    IF /\ v.variant = "CollNonPrim"
       /\ \A i \in 1..Len(v.items) : v.items[i].variant = VariantOf(ElemOf(ty))
    THEN Extracted(ty, HostVal(ty, <<>>, <<>>, [i \in 1..Len(v.items) |-> v.items[i].num]))
    ELSE TryExtractFromError(ty, ty, v)

TryExtractFromConstant_typed(ty, cv) ==
    IF cv.tpe # stype(ty) THEN TryExtractFromError(ty, ty, cv.v)
    ELSE IF ty \in ScalarTypes \union OpaqueTypes
    THEN ScalarTryExtractFromValue(ty, cv.v)
    ELSE VecTryExtractFromValue(ty, cv.v)

\* impl<T: TryExtractFrom<Value>> TryExtractFrom<Constant> for T
TryExtractFromConstant(ty, cv) ==
    IF ty \in ScalarTypes \union OpaqueTypes
    THEN ScalarTryExtractFromValue(ty, cv.v)
    ELSE VecTryExtractFromValue(ty, cv.v)

\* impl TryExtractFrom<Constant> for Vec<i8>
VecI8TryExtractFrom(cv) ==
    IF cv.v.variant = "CollByte"
    THEN Extracted(VecI8, HostVal(VecI8, <<>>, cv.v.bytes, <<>>))
    ELSE TryExtractFromError(VecI8, VecI8, cv.v)

\* impl TryExtractFrom<Constant> for Vec<u8>
VecU8TryExtractFrom(cv) ==
    LET r == VecI8TryExtractFrom(cv)
    IN  IF r.kind = "Ok"
        THEN Extracted(VecU8, HostVal(VecU8, <<>>, from_vec_i8(r.host.bytes), <<>>))
        ELSE [r EXCEPT !.ty = VecU8]

\* T::try_extract_from(cv): the impl the requested host type selects
try_extract_from(ty, cv) ==
    CASE ty = VecI8 -> VecI8TryExtractFrom(cv)
      [] ty = VecU8 -> VecU8TryExtractFrom(cv)
      [] OTHER -> TryExtractFromConstant(ty, cv)

-----------------------------------------------------------------------------
(* The host values and literals the conversions are run on *)

SeqsUpTo(S, n) == UNION {[1..k -> S] : k \in 0..n}

U8Samples == {0, 127, 128, 255}
I8Elems == {-128, -1, 0, 127}

ScalarSamples(ty) ==
    CASE ty = "bool" -> {<<0>>, <<1>>}
      [] ty = "i8" -> I8Samples
      [] ty = "i16" -> I16Samples
      [] ty = "i32" -> I32Samples
      [] ty = "i64" -> I64Samples
      [] OTHER -> {<<1>>, <<2>>}

\* two elements of each width for the vectors
ElemSamples(t) ==
    CASE t = "i16" -> {<<255, 128>>, <<0, 1>>}
      [] t = "i32" -> {<<128, 0, 0, 0>>, <<0, 0, 0, 1>>}
      [] OTHER -> {<<255, 255, 255, 255, 255, 255, 255, 255>>, <<0, 0, 0, 0, 0, 0, 0, 1>>}

Hosts ==
    UNION {{HostVal(ty, n, <<>>, <<>>) : n \in ScalarSamples(ty)} :
              ty \in ScalarTypes \union OpaqueTypes}

VecHosts ==
    {HostVal(VecU8, <<>>, bs, <<>>) : bs \in SeqsUpTo(U8Samples, MaxVecLen)}
    \union {HostVal(VecI8, <<>>, bs, <<>>) : bs \in SeqsUpTo(I8Elems, MaxVecLen)}
    \union UNION {{HostVal(VecOf(t), <<>>, <<>>, es) : es \in SeqsUpTo(ElemSamples(t), MaxVecLen)} :
                     t \in StoredNonPrimitive}

AllHosts == Hosts \union VecHosts

\* the types and values a Constant { tpe, v } literal is written with
LiteralTypes == {stype(ty) : ty \in HostTypes \ {VecU8}}
LiteralValues == {ConstantFrom(h).v : h \in AllHosts}

-----------------------------------------------------------------------------
(* Building a Constant and extracting from it *)

ConstIdle == host = NoHost /\ c = NoConstant /\ extracted = NoExtract /\ kpc = "idle"

ConstInit == host = NoHost /\ c = NoConstant /\ extracted = NoExtract /\ kpc = "start"

\* let c: Constant = h.into();
BuildFrom ==
    /\ kpc = "start"
    /\ \E h \in AllHosts :
          /\ host' = h
          /\ c' = ConstantFrom(h)
    /\ kpc' = "built"
    /\ UNCHANGED <<extracted, evalVars, codecVars, jsonVars>>

\* let c = Constant { tpe, v }; (both fields are pub)
BuildLiteral ==
    /\ kpc = "start"
    /\ \E tpe \in LiteralTypes, v \in LiteralValues : c' = Constant(tpe, v)
    /\ kpc' = "built"
    /\ UNCHANGED <<host, extracted, evalVars, codecVars, jsonVars>>

\* T::try_extract_from(c)
Extract ==
    /\ kpc = "built"
    /\ \E ty \in HostTypes : extracted' = try_extract_from(ty, c)
    /\ kpc' = "extracted"
    /\ UNCHANGED <<host, c, evalVars, codecVars, jsonVars>>

ConstNext == BuildFrom \/ BuildLiteral \/ Extract

-----------------------------------------------------------------------------
(* Wire format: type codes, op codes, the compact integers *)

\* the type codes of the primitive types, of a collection, of a box
TypeCode(tpe) ==
    CASE tpe = SBoolean -> 1
      [] tpe = SByte -> 2
      [] tpe = SShort -> 3
      [] tpe = SInt -> 4
      [] tpe = SLong -> 5
      [] tpe = SBigInt -> 6
      [] tpe = SGroupElement -> 7
      [] tpe = SSigmaProp -> 8
      [] tpe = SBox -> 99
      [] OTHER -> 0
CollTypeCode == 12
\* a first byte up to this one starts a constant, a larger one is an op code
LastConstantCode == 112
OpCodeUPCAST == 126
OpCodeCONTEXT == 142
OpCodeAND == 150
OpCodeMETHOD_CALL == 220

\* the type ids of the method owners
SBoxTypeId == 99
SContextTypeId == 101
SCollTypeId == 12

\* what parsing gives: Ok with what was read and the bytes left, a typed
\* SerializationError, or a panic of the process
PR(kind, nodes, tpe, v, n, rest, err) ==
    [kind |-> kind, nodes |-> nodes, tpe |-> tpe, v |-> v, n |-> n, rest |-> rest, err |-> err]
OkNodes(nodes, rest) == PR("Ok", nodes, NoType, NoValue, 0, rest, "")
OkType(tpe, rest) == PR("Ok", <<>>, tpe, NoValue, 0, rest, "")
OkValue(v, rest) == PR("Ok", <<>>, NoType, v, 0, rest, "")
OkNum(n, rest) == PR("Ok", <<>>, NoType, NoValue, n, rest, "")
SerializationError(err) == PR("Err", <<>>, NoType, NoValue, 0, <<>>, err)
Panic(err) == PR("Panic", <<>>, NoType, NoValue, 0, <<>>, err)
NoParse == PR("None", <<>>, NoType, NoValue, 0, <<>>, "")

Drop(r, k) == SubSeq(r, k + 1, Len(r))
Take(r, k) == SubSeq(r, 1, k)

\* r.get_u8()
get_u8(r) == IF r = <<>> THEN SerializationError("eof") ELSE OkNum(r[1], Tail(r))

RECURSIVE put_u32(_)
\* w.put_u32(n): 7 bits a byte, low bits first, the top bit set on all but the last
put_u32(n) == IF n < 128 THEN <<n>> ELSE <<128 + (n % 128)>> \o put_u32(n \div 128)

\* a count of elements from which the build has no memory for a vector
HugeCount == 1000000

RECURSIVE get_u32(_)
\* r.get_u32()
get_u32(r) ==
    IF r = <<>> THEN SerializationError("eof")
    ELSE IF r[1] < 128 THEN OkNum(r[1], Tail(r))
    ELSE LET hi == get_u32(Tail(r))
         IN  IF hi.kind # "Ok" THEN hi
             ELSE IF hi.n >= HugeCount \div 128 THEN OkNum(HugeCount, hi.rest)
             ELSE OkNum((r[1] - 128) + 128 * hi.n, hi.rest)

\* the width in bytes of a fixed-width numeric type
Width(tpe) ==
    CASE tpe = SByte -> 1 [] tpe = SShort -> 2 [] tpe = SInt -> 4 [] tpe = SLong -> 8
      [] OTHER -> 0

\* the variant of the values of a primitive type
VariantOfType(tpe) ==
    CASE tpe = SBoolean -> "Boolean"
      [] tpe = SByte -> "Byte"
      [] tpe = SShort -> "Short"
      [] tpe = SInt -> "Int"
      [] tpe = SLong -> "Long"
      [] tpe = SBigInt -> "BigInt"
      [] tpe = SGroupElement -> "GroupElement"
      [] tpe = SSigmaProp -> "SigmaProp"
      [] tpe = SBox -> "CBox"
      [] OTHER -> "None"

-----------------------------------------------------------------------------
(* SType and Value codec *)

RECURSIVE STypeSerialize(_)
\* SType::sigma_serialize: one byte for a primitive; for a collection the
\* collection code added to the element's when the element is primitive,
\* otherwise the collection code followed by the element type
STypeSerialize(tpe) ==
    IF tpe[1] = "SColl"
    THEN IF Tail(tpe) \in PrimTypes
         THEN <<CollTypeCode + TypeCode(Tail(tpe))>>
         ELSE <<CollTypeCode>> \o STypeSerialize(Tail(tpe))
    ELSE <<TypeCode(tpe)>>

RECURSIVE STypeParse(_)
\* SType::sigma_parse
STypeParse(r) ==
    IF r = <<>> THEN SerializationError("eof")
    ELSE IF \E t \in PrimTypes \union {SBox} : TypeCode(t) = r[1]
    THEN OkType(CHOOSE t \in PrimTypes \union {SBox} : TypeCode(t) = r[1], Tail(r))
    ELSE IF \E t \in PrimTypes : CollTypeCode + TypeCode(t) = r[1]
    THEN OkType(SColl(CHOOSE t \in PrimTypes : CollTypeCode + TypeCode(t) = r[1]), Tail(r))
    ELSE IF r[1] = CollTypeCode
    THEN LET el == STypeParse(Tail(r))
         IN  IF el.kind # "Ok" THEN el
             ELSE IF el.tpe \in PrimTypes THEN SerializationError("collection type not canonical")
             ELSE OkType(SColl(el.tpe), el.rest)
    ELSE SerializationError("unknown type code")

\* a signed integer in the compact form: its length, then its bytes without
\* the redundant sign bytes
PutInt(num) == <<Len(Canon(num))>> \o Canon(num)

\* the inverse, widened to w bytes (w = 0: left as read, a BigInt)
GetInt(r, w) ==
    IF r = <<>> THEN SerializationError("eof")
    ELSE IF r[1] = 0 \/ r[1] > Len(r) - 1 \/ (w > 0 /\ r[1] > w)
    THEN SerializationError("bad integer length")
    ELSE LET bs == SubSeq(r, 2, r[1] + 1)
         IN  IF Canon(bs) # bs THEN SerializationError("integer not canonical")
             ELSE OkValue(Scalar("Int", IF w > 0 THEN SignExtend(bs, w) ELSE bs), Drop(r, r[1] + 1))

\* DataSerializer::sigma_serialize(v, tpe)
ValueSerialize(tpe, v) ==
    CASE tpe \in {SBoolean, SByte} -> v.num
      [] tpe \in {SShort, SInt, SLong, SBigInt} -> PutInt(v.num)
      [] tpe = SColl(SByte) -> put_u32(Len(v.bytes)) \o from_vec_i8(v.bytes)
      [] tpe = SColl(SBoolean) ->
            put_u32(Len(v.items)) \o [i \in 1..Len(v.items) |-> v.items[i].num[1]]
      [] OTHER -> <<>>

\* DataSerializer::sigma_parse(tpe, r)
ValueParse(tpe, r) ==
    CASE tpe = SBoolean ->
            IF r = <<>> THEN SerializationError("eof")
            ELSE OkValue(BooleanV(r[1] # 0), Tail(r))
      [] tpe = SByte ->
            IF r = <<>> THEN SerializationError("eof")
            ELSE OkValue(ByteV(<<r[1]>>), Tail(r))
      [] tpe \in {SShort, SInt, SLong, SBigInt} ->
            LET g == GetInt(r, Width(tpe))
            IN  IF g.kind # "Ok" THEN g
                ELSE OkValue(Scalar(VariantOfType(tpe), g.v.num), g.rest)
      [] tpe \in {SColl(SByte), SColl(SBoolean)} ->
            LET len == get_u32(r)
            IN  IF len.kind # "Ok" THEN len
                ELSE IF len.n > Len(len.rest) THEN SerializationError("eof")
                ELSE LET bs == Take(len.rest, len.n)
                     IN  OkValue(IF tpe = SColl(SByte)
                                 THEN CollByteV([i \in 1..len.n |-> u8_as_i8(bs[i])])
                                 ELSE CollNonPrimV(SBoolean,
                                                   [i \in 1..len.n |-> BooleanV(bs[i] # 0)]),
                                 Drop(len.rest, len.n))
      [] OTHER -> SerializationError("no value codec for the type")

-----------------------------------------------------------------------------
(* Methods *)

\* the method descriptors: Box.value, Context.dataInputs, and Coll[IV].apply,
\* whose declared result type is the collection's type parameter
SBoxValueMethod == SMethodRec(SBoxTypeId, 1, SLong)
DataInputsMethod == SMethodRec(SContextTypeId, 1, SColl(SBox))
SCollApplyMethod == SMethodRec(SCollTypeId, 10, STypeVar)
Methods == {SBoxValueMethod, DataInputsMethod, SCollApplyMethod}

KnownIds(type_id, method_id) ==
    \E m \in Methods : m.obj_type = type_id /\ m.method_id = method_id

\* SMethod::from_ids(type_id, method_id). Its caller takes an SMethod from it
\* and no Result: for ids that name no method it panics, or it returns some
\* SMethod, here one of these ids and of no known signature.
from_ids(type_id, method_id) ==
    IF KnownIds(type_id, method_id)
    THEN OkNodes(<<Node("Method", NoType, NoValue, <<>>,
                        CHOOSE m \in Methods : m.obj_type = type_id /\ m.method_id = method_id)>>,
                 <<>>)
    ELSE IF unknown_ids = "panic"
    THEN Panic("cannot find the method")
    ELSE OkNodes(<<Node("Method", NoType, NoValue, <<>>,
                        SMethodRec(type_id, method_id, SAny))>>, <<>>)

\* MethodCall::tpe(): self.method.tpe()
MethodCall_tpe(mc) == mc.method.tpe

\* Upcast::tpe(): self.tpe.clone()
Upcast_tpe(e) == e.tpe

\* And::tpe(): SType::SBoolean
And_tpe(e) == SBoolean

\* Expr::tpe(): the tpe() of the node's variant
Expr_tpe(e) ==
    CASE e.op = "Const" -> e.tpe
      [] e.op = "Context" -> SContext
      [] e.op = "And" -> And_tpe(e)
      [] e.op = "Upcast" -> Upcast_tpe(e)
      [] e.op = "MethodCall" -> MethodCall_tpe(e)
      [] OTHER -> NoType

-----------------------------------------------------------------------------
(* Expr codec *)

RECURSIVE ExprSerialize(_)
RECURSIVE ExprParse(_)

RECURSIVE Concat(_)
\* the concatenation of a sequence of byte sequences
Concat(ss) == IF ss = <<>> THEN <<>> ELSE Head(ss) \o Concat(Tail(ss))

\* And::sigma_serialize
And_sigma_serialize(e) == ExprSerialize(e.kids[1])

\* And::sigma_parse
And_sigma_parse(r) ==
    LET input == ExprParse(r)
    IN  IF input.kind # "Ok" THEN input
        ELSE OkNodes(<<AndE(input.nodes[1])>>, input.rest)

\* Upcast::sigma_serialize
Upcast_sigma_serialize(e) == ExprSerialize(e.kids[1]) \o STypeSerialize(e.tpe)

Upcast_sigma_parse_tpe_first(r) ==
    LET tpe == STypeParse(r)
    IN  IF tpe.kind # "Ok" THEN tpe
        ELSE LET input == ExprParse(tpe.rest)
             IN  IF input.kind # "Ok" THEN input
                 ELSE OkNodes(<<UpcastE(input.nodes[1], tpe.tpe)>>, input.rest)

\* Upcast::sigma_parse
Upcast_sigma_parse(r) ==
    LET input == ExprParse(r)
    IN  IF input.kind # "Ok" THEN input
        ELSE LET tpe == STypeParse(input.rest)
             IN  IF tpe.kind # "Ok" THEN tpe
                 ELSE OkNodes(<<UpcastE(input.nodes[1], tpe.tpe)>>, tpe.rest)

MethodCall_sigma_serialize_ids_swapped(e) ==
    <<e.method.method_id>> \o <<e.method.obj_type>>
    \o ExprSerialize(e.kids[1])
    \o put_u32(Len(e.kids) - 1)
    \o Concat([i \in 1..(Len(e.kids) - 1) |-> ExprSerialize(e.kids[i + 1])])

\* MethodCall::sigma_serialize
MethodCall_sigma_serialize(e) ==
    <<e.method.obj_type>> \o <<e.method.method_id>>
    \o ExprSerialize(e.kids[1])
    \o put_u32(Len(e.kids) - 1)
    \o Concat([i \in 1..(Len(e.kids) - 1) |-> ExprSerialize(e.kids[i + 1])])

\* Vec::with_capacity(args_count as usize): the vector is allocated for the
\* count before an argument is read; for a capacity out of the build's reach
\* (isize::MAX bytes, or the memory there is) it panics or aborts, or the
\* allocation is granted and nothing happens yet
with_capacity(n) ==
    IF n >= HugeCount /\ alloc = "abort" THEN Panic("capacity overflow")
    ELSE OkNum(n, <<>>)

RECURSIVE ParseArgs(_, _)
\* for _ in 0..args_count { args.push(Expr::sigma_parse(r)?); }
ParseArgs(r, args_count) ==
    IF args_count = 0 THEN OkNodes(<<>>, r)
    ELSE LET a == ExprParse(r)
         IN  IF a.kind # "Ok" THEN a
             ELSE LET more == ParseArgs(a.rest, args_count - 1)
                  IN  IF more.kind # "Ok" THEN more
                      ELSE OkNodes(<<a.nodes[1]>> \o more.nodes, more.rest)

\* MethodCall::sigma_parse
MethodCall_sigma_parse(r) ==
    LET type_id == get_u8(r)
    IN  IF type_id.kind # "Ok" THEN type_id ELSE
    LET method_id == get_u8(type_id.rest)
    IN  IF method_id.kind # "Ok" THEN method_id ELSE
    LET obj == ExprParse(method_id.rest)
    IN  IF obj.kind # "Ok" THEN obj ELSE
    LET args_count == get_u32(obj.rest)
    IN  IF args_count.kind # "Ok" THEN args_count ELSE
    LET capacity == with_capacity(args_count.n)
    IN  IF capacity.kind # "Ok" THEN capacity ELSE
    LET args == ParseArgs(args_count.rest, args_count.n)
    IN  IF args.kind # "Ok" THEN args ELSE
    LET method == from_ids(type_id.n, method_id.n)
    IN  IF method.kind # "Ok" THEN method
        ELSE OkNodes(<<MethodCallE(obj.nodes[1], method.nodes[1].method, args.nodes)>>,
                     args.rest)

\* Expr::sigma_serialize: a constant as its type and its value, any other
\* node as its op code and the fields of its variant
ExprSerialize(e) ==
    CASE e.op = "Const" -> STypeSerialize(e.tpe) \o ValueSerialize(e.tpe, e.v)
      [] e.op = "Context" -> <<OpCodeCONTEXT>>
      [] e.op = "And" -> <<OpCodeAND>> \o And_sigma_serialize(e)
      [] e.op = "Upcast" -> <<OpCodeUPCAST>> \o Upcast_sigma_serialize(e)
      [] e.op = "MethodCall" -> <<OpCodeMETHOD_CALL>> \o MethodCall_sigma_serialize(e)
      [] OTHER -> <<>>

\* Expr::sigma_parse: dispatch on the first byte
ExprParse(r) ==
    IF r = <<>> THEN SerializationError("eof")
    ELSE IF r[1] <= LastConstantCode
    THEN LET tpe == STypeParse(r)
         IN  IF tpe.kind # "Ok" THEN tpe
             ELSE LET v == ValueParse(tpe.tpe, tpe.rest)
                  IN  IF v.kind # "Ok" THEN v
                      ELSE OkNodes(<<ConstE(tpe.tpe, v.v)>>, v.rest)
    ELSE IF r[1] = OpCodeCONTEXT THEN OkNodes(<<ContextE>>, Tail(r))
    ELSE IF r[1] = OpCodeAND THEN And_sigma_parse(Tail(r))
    ELSE IF r[1] = OpCodeUPCAST THEN Upcast_sigma_parse(Tail(r))
    ELSE IF r[1] = OpCodeMETHOD_CALL THEN MethodCall_sigma_parse(Tail(r))
    ELSE SerializationError("unknown op code")

-----------------------------------------------------------------------------
(* The expressions the codec is run on *)

CodecConsts ==
    { ConstE(SBoolean, BooleanV(TRUE)),
      ConstE(SByte, ByteV(<<255>>)),
      ConstE(SInt, IntV(<<255, 255, 255, 128>>)),
      ConstE(SLong, LongV(<<0, 0, 0, 0, 0, 0, 1, 0>>)),
      ConstE(SColl(SByte), CollByteV(<<1, -1>>)),
      ConstE(SColl(SBoolean), CollNonPrimV(SBoolean, <<BooleanV(TRUE), BooleanV(FALSE)>>)) }
Leaves == CodecConsts \union {ContextE}
ArgExprs == {ConstE(SInt, IntV(<<0, 0, 0, 1>>)), AndE(ConstE(SColl(SBoolean), CollNonPrimV(SBoolean, <<>>)))}
Receivers == {ContextE, ConstE(SColl(SByte), CollByteV(<<1, -1>>))}
MethodCalls ==
    {MethodCallE(obj, m, args) :
        obj \in Receivers, m \in Methods, args \in SeqsUpTo(ArgExprs, MaxArgs)}
Level1 ==
    {AndE(x) : x \in Leaves}
    \union {UpcastE(x, t) : x \in Leaves, t \in {SLong, SBigInt, SColl(SBox)}}
    \union MethodCalls
Level2 ==
    {AndE(x) : x \in MethodCalls}
    \union {UpcastE(x, SInt) : x \in {AndE(y) : y \in Leaves} \union MethodCalls}
    \union {AndE(UpcastE(x, SShort)) : x \in Leaves}
CodecExprs == Leaves \union Level1 \union Level2

\* the bytes a damaged buffer gets: a type code, an unknown one, op codes,
\* a continuation byte of the compact integers
CorruptBytes == {0, 1, 2, 7, 99, OpCodeUPCAST, OpCodeAND, 200, OpCodeMETHOD_CALL}

-----------------------------------------------------------------------------
(* Writing and reading an expression *)

CodecIdle ==
    /\ expr = NoExpr /\ buf = <<>> /\ parsed = NoParse /\ cpc = "idle"
    /\ unknown_ids = "panic"
    /\ alloc = "ok"

CodecInit ==
    /\ expr = NoExpr /\ buf = <<>> /\ parsed = NoParse /\ cpc = "start"
    /\ unknown_ids \in {"panic", "accept"}
    /\ alloc \in {"ok", "abort"}

\* expr.sigma_serialize(w)
Serialize ==
    /\ cpc = "start"
    /\ \E e \in CodecExprs :
          /\ expr' = e
          /\ buf' = ExprSerialize(e)
    /\ cpc' = "written"
    /\ UNCHANGED <<parsed, unknown_ids, alloc, evalVars, constVars, jsonVars>>

\* the bytes are cut short on their way
TruncateBuf ==
    /\ cpc = "written"
    /\ \E k \in 0..(Len(buf) - 1) : buf' = Take(buf, k)
    /\ cpc' = "damaged"
    /\ UNCHANGED <<expr, parsed, unknown_ids, alloc, evalVars, constVars, jsonVars>>

\* one byte is replaced on the way
CorruptBuf ==
    /\ cpc = "written"
    /\ \E i \in 1..Len(buf), b \in CorruptBytes :
          /\ b # buf[i]
          /\ buf' = [buf EXCEPT ![i] = b]
    /\ cpc' = "damaged"
    /\ UNCHANGED <<expr, parsed, unknown_ids, alloc, evalVars, constVars, jsonVars>>

\* bytes that no sigma_serialize wrote: a call of Context.dataInputs with a
\* count of arguments and fewer arguments than the count
ForgedBufs ==
    {<<OpCodeMETHOD_CALL, SContextTypeId, 1, OpCodeCONTEXT>> \o put_u32(n) \o ExprSerialize(a) :
        n \in {2, HugeCount}, a \in ArgExprs \union {NoExpr}}

\* the bytes come from a sender that made them up
ForgeBuf ==
    /\ cpc = "start"
    /\ \E bs \in ForgedBufs : buf' = bs
    /\ cpc' = "damaged"
    /\ UNCHANGED <<expr, parsed, unknown_ids, alloc, evalVars, constVars, jsonVars>>

\* Expr::sigma_parse(r) on the buffer
Parse ==
    /\ cpc \in {"written", "damaged"}
    /\ parsed' = ExprParse(buf)
    /\ cpc' = IF cpc = "written" THEN "parsed" ELSE "parsed_damaged"
    /\ UNCHANGED <<expr, buf, unknown_ids, alloc, evalVars, constVars, jsonVars>>

CodecNext == Serialize \/ TruncateBuf \/ CorruptBuf \/ ForgeBuf \/ Parse

-----------------------------------------------------------------------------
(* JSON: a value is a string (its characters in s), a number, an array (of  *)
(* n opaque items) or an object (its members in fields, in their order)     *)

JVal(j, s, n, fields) == [j |-> j, s |-> s, n |-> n, fields |-> fields]
JStr(s) == JVal("str", s, 0, <<>>)
JNum(n) == JVal("num", <<>>, n, <<>>)
JArr(n) == JVal("arr", <<>>, n, <<>>)
JObj(fields) == JVal("obj", <<>>, 0, fields)
NoJson == JVal("none", <<>>, 0, <<>>)

\* the value of a hexadecimal digit, 16 for any other character
HexDigit(ch) ==
    CASE ch = "0" -> 0 [] ch = "1" -> 1 [] ch = "2" -> 2 [] ch = "3" -> 3
      [] ch = "4" -> 4 [] ch = "5" -> 5 [] ch = "6" -> 6 [] ch = "7" -> 7
      [] ch = "8" -> 8 [] ch = "9" -> 9 [] ch = "a" -> 10 [] ch = "b" -> 11
      [] ch = "c" -> 12 [] ch = "d" -> 13 [] ch = "e" -> 14 [] ch = "f" -> 15
      [] OTHER -> 16

\* base16::decode(s): an odd length is refused, then any character that is
\* no digit; two digits make a byte, the high one first
base16_decode(s) ==
    IF Len(s) % 2 = 1
    THEN [kind |-> "Err", bytes |-> <<>>, err |-> "InvalidLength"]
    ELSE IF \E i \in 1..Len(s) : HexDigit(s[i]) = 16
    THEN [kind |-> "Err", bytes |-> <<>>, err |-> "InvalidByte"]
    ELSE [kind |-> "Ok",
          bytes |-> [i \in 1..(Len(s) \div 2) |->
                        16 * HexDigit(s[2 * i - 1]) + HexDigit(s[2 * i])],
          err |-> ""]

\* Base16DecodedBytes::try_from(s)
Base16DecodedBytes_try_from(s) == base16_decode(s)

\* Constant::sigma_parse_bytes(bytes): the type, then the value of that type
Constant_sigma_parse_bytes(bytes) ==
    LET value(tpe, v) ==
            IF v.kind # "Ok" THEN v
            ELSE PR("Ok", <<>>, tpe.tpe, v.v, 0, v.rest, "")
        typed(tpe) ==
            IF tpe.kind # "Ok" THEN tpe
            ELSE value(tpe, ValueParse(tpe.tpe, tpe.rest))
    IN  typed(STypeParse(bytes))

\* impl TryFrom<Base16DecodedBytes> for Constant
Constant_try_from(bytes) == Constant_sigma_parse_bytes(bytes)

\* Result<RichConstant, ConstantParsingError>: err is the variant of the error
FromStrOk(cv) == [kind |-> "Ok", c |-> cv, err |-> "", detail |-> ""]
ConstantParsingError(err, detail) ==
    [kind |-> "Err", c |-> NoConstant, err |-> err, detail |-> detail]

RichConstant_from_str_lenient(s) ==
    LET parsed_bytes(cv) ==
            IF cv.kind # "Ok"
            THEN ConstantParsingError("DeserializationError", cv.err)
            ELSE FromStrOk(Constant(cv.tpe, cv.v))
        decoded_str(bytes) ==
            IF bytes.kind # "Ok"
            THEN FromStrOk(NoConstant)
            ELSE parsed_bytes(Constant_sigma_parse_bytes(bytes.bytes))
    IN  decoded_str(Base16DecodedBytes_try_from(s))

\* impl FromStr for RichConstant
RichConstant_from_str(s) ==
    LET parsed_bytes(cv) ==
            IF cv.kind # "Ok"
            THEN ConstantParsingError("DeserializationError", cv.err)
            ELSE FromStrOk(Constant(cv.tpe, cv.v))
        decoded_str(bytes) ==
            IF bytes.kind # "Ok"
            THEN ConstantParsingError("DecodeError", bytes.err)
            ELSE parsed_bytes(Constant_sigma_parse_bytes(bytes.bytes))
    IN  decoded_str(Base16DecodedBytes_try_from(s))

\* the Display of a ConstantParsingError: the words of its variant, then {0}
ConstantParsingErrorDisplay(e) ==
    IF e.err = "DecodeError"
    THEN <<"Base16 decoding error: ", e.detail>>
    ELSE <<"Deserialization error: ", e.detail>>

\* the box of an ErgoBoxFromJson
ErgoBoxRec(ids, value, ergo_tree, tokens, additional_registers, creation_height, index) ==
    [box_id |-> ids[1], value |-> value, ergo_tree |-> ergo_tree, tokens |-> tokens,
     additional_registers |-> additional_registers,
     creation_height |-> creation_height, transaction_id |-> ids[2],
     index |-> index]
NoBox == ErgoBoxRec(<<<<>>, <<>>>>, 0, <<>>, 0, <<>>, 0, 0)

\* the outcome of a deserialization: a Constant, a register map (the pairs of
\* a register's name and its Constant) or a box, or a serde error whose
\* message is msg, the fragments of the text in their order
De(kind, cv, regs, box, msg) ==
    [kind |-> kind, c |-> cv, regs |-> regs, box |-> box, msg |-> msg]
DeConstant(cv) == De("Ok", cv, <<>>, NoBox, <<>>)
DeRegisters(regs) == De("Ok", NoConstant, regs, NoBox, <<>>)
DeBox(box) == De("Ok", NoConstant, <<>>, box, <<>>)
DeError(msg) == De("Err", NoConstant, <<>>, NoBox, msg)
NoDecoded == De("None", NoConstant, <<>>, NoBox, <<>>)

\* StringOrStruct::visit_str
visit_str(value) ==
    LET map_err(r) ==
            IF r.kind = "Ok"
            THEN DeConstant(r.c)
            ELSE DeError(<<"error parsing constant from string: {value}">>)
    IN  map_err(RichConstant_from_str(value))

\* Constant's Deserialize: serde(try_from = "Base16DecodedBytes"), the bytes
\* of a JSON string in base 16 handed to Constant::try_from
ConstantDeserialize(jv) ==
    IF jv.j # "str" THEN DeError(<<"invalid type, expected a string">>)
    ELSE LET converted(cv) ==
                 IF cv.kind # "Ok" THEN DeError(<<cv.err>>)
                 ELSE DeConstant(Constant(cv.tpe, cv.v))
             decoded_str(bytes) ==
                 IF bytes.kind # "Ok" THEN DeError(<<bytes.err>>)
                 ELSE converted(Constant_try_from(bytes.bytes))
         IN  decoded_str(base16_decode(jv.s))

RECURSIVE RichConstantFields(_, _)
\* the derived Deserialize of RichConstant on the members of an object: the
\* member "rawValue" fills raw_value, a second one is a duplicate, any other
\* member is skipped, and raw_value must be filled at the end
RichConstantFields(fields, raw_value) ==
    IF fields = <<>>
    THEN IF raw_value.kind = "None" THEN DeError(<<"missing field rawValue">>)
         ELSE raw_value
    ELSE IF Head(fields)[1] = "rawValue"
    THEN IF raw_value.kind # "None" THEN DeError(<<"duplicate field rawValue">>)
         ELSE LET next_field(cv) ==
                      IF cv.kind # "Ok" THEN cv
                      ELSE RichConstantFields(Tail(fields), cv)
              IN  next_field(ConstantDeserialize(Head(fields)[2]))
    ELSE RichConstantFields(Tail(fields), raw_value)

visit_map_strict(map) ==
    IF Len(map) # 1 THEN DeError(<<"unknown field">>)
    ELSE RichConstantFields(map, NoDecoded)

\* StringOrStruct::visit_map
visit_map(map) == RichConstantFields(map, NoDecoded)

\* constant_as_string_or_struct: deserialize_any hands a string to visit_str,
\* an object to visit_map, and refuses any other value as not expected
constant_as_string_or_struct(jv) ==
    CASE jv.j = "str" -> visit_str(jv.s)
      [] jv.j = "obj" -> visit_map(jv.fields)
      [] OTHER -> DeError(<<"invalid type, expected ", "string or map">>)

\* ConstantHolder's Deserialize, and Constant::from(ConstantHolder)
ConstantHolderDeserialize(jv) == constant_as_string_or_struct(jv)

-----------------------------------------------------------------------------
(* Register maps and box records *)

\* the bytes of a box id or of a transaction id
DigestSize == 1

RegisterIds == {"R4", "R5", "R6", "R7", "R8", "R9"}

RECURSIVE RegisterFields(_, _)
\* the members of a register map, each a register's name and a ConstantHolder:
\* the first member that fails fails the whole map
RegisterFields(fields, regs) ==
    IF fields = <<>> THEN DeRegisters(regs)
    ELSE IF Head(fields)[1] \notin RegisterIds
    THEN DeError(<<"unknown variant">>)
    ELSE LET next_field(cv) ==
                 IF cv.kind # "Ok" THEN cv
                 ELSE RegisterFields(Tail(fields), Append(regs, <<Head(fields)[1], cv.c>>))
         IN  next_field(ConstantHolderDeserialize(Head(fields)[2]))

\* NonMandatoryRegisters' Deserialize
NonMandatoryRegistersDeserialize(jv) ==
    IF jv.j # "obj" THEN DeError(<<"invalid type, expected a map">>)
    ELSE RegisterFields(jv.fields, <<>>)

\* BoxId's and TxId's Deserialize: a digest of DigestSize bytes in base 16
DigestDeserialize(jv) ==
    IF jv.j # "str" THEN [kind |-> "Err", bytes |-> <<>>, err |-> "invalid type"]
    ELSE LET sized(bytes) ==
                 IF bytes.kind = "Ok" /\ Len(bytes.bytes) # DigestSize
                 THEN [kind |-> "Err", bytes |-> <<>>, err |-> "invalid digest size"]
                 ELSE bytes
         IN  sized(base16_decode(jv.s))

\* ergo_tree::deserialize: a string, base16::decode, ErgoTree::sigma_parse_bytes
\* (the tree is kept as its bytes, and there is no tree of no bytes)
ergo_tree_deserialize(jv) ==
    IF jv.j # "str" THEN [kind |-> "Err", bytes |-> <<>>, err |-> "invalid type"]
    ELSE LET tree(bytes) ==
                 IF bytes.kind = "Ok" /\ bytes.bytes = <<>>
                 THEN [kind |-> "Err", bytes |-> <<>>, err |-> "eof"]
                 ELSE bytes
         IN  tree(base16_decode(jv.s))

BoxFields ==
    {"box_id", "value", "ergo_tree", "tokens", "additional_registers",
     "creation_height", "transaction_id", "index"}

FieldOf_no_alias(key) ==
    CASE key = "boxId" -> "box_id"
      [] key = "value" -> "value"
      [] key = "ergoTree" -> "ergo_tree"
      [] key = "assets" -> "tokens"
      [] key = "additionalRegisters" -> "additional_registers"
      [] key = "creationHeight" -> "creation_height"
      [] key = "transactionId" -> "transaction_id"
      [] key = "index" -> "index"
      [] OTHER -> "ignored"

\* the field of ErgoBoxFromJson a member's name selects: serde(rename, alias)
FieldOf(key) ==
    CASE key \in {"boxId", "id"} -> "box_id"
      [] key = "value" -> "value"
      [] key = "ergoTree" -> "ergo_tree"
      [] key = "assets" -> "tokens"
      [] key = "additionalRegisters" -> "additional_registers"
      [] key = "creationHeight" -> "creation_height"
      [] key = "transactionId" \/ key = "txId" -> "transaction_id"
      [] key = "index" -> "index"
      [] OTHER -> "ignored"

\* a number field: u64, u32, u16
NumberDeserialize(jv) ==
    IF jv.j # "num" THEN [kind |-> "Err", n |-> 0] ELSE [kind |-> "Ok", n |-> jv.n]

\* the field's Deserialize on the member's value, stored in the box
SetField(box, field, jv) ==
    CASE field \in {"box_id", "transaction_id"} ->
            LET digest(d) ==
                    IF d.kind # "Ok" THEN DeError(<<d.err>>)
                    ELSE IF field = "box_id" THEN DeBox([box EXCEPT !.box_id = d.bytes])
                    ELSE DeBox([box EXCEPT !.transaction_id = d.bytes])
            IN  digest(DigestDeserialize(jv))
      [] field = "ergo_tree" ->
            LET tree(t) ==
                    IF t.kind # "Ok" THEN DeError(<<t.err>>)
                    ELSE DeBox([box EXCEPT !.ergo_tree = t.bytes])
            IN  tree(ergo_tree_deserialize(jv))
      [] field = "tokens" ->
            IF jv.j # "arr" THEN DeError(<<"invalid type, expected a sequence">>)
            ELSE DeBox([box EXCEPT !.tokens = jv.n])
      [] field = "additional_registers" ->
            LET registers(r) ==
                    IF r.kind # "Ok" THEN r
                    ELSE DeBox([box EXCEPT !.additional_registers = r.regs])
            IN  registers(NonMandatoryRegistersDeserialize(jv))
      [] OTHER ->
            LET k == NumberDeserialize(jv)
            IN  IF k.kind # "Ok" THEN DeError(<<"invalid type, expected a number">>)
                ELSE IF field = "value" THEN DeBox([box EXCEPT !.value = k.n])
                ELSE IF field = "creation_height"
                THEN DeBox([box EXCEPT !.creation_height = k.n])
                ELSE DeBox([box EXCEPT !.index = k.n])

RECURSIVE ErgoBoxFields(_, _, _)
\* the derived Deserialize of ErgoBoxFromJson on the members of an object, in
\* their order: a member of no field is skipped, a field met twice is a
\* duplicate, and every field must be filled at the end
ErgoBoxFields(fields, box, seen) ==
    IF fields = <<>>
    THEN IF seen # BoxFields THEN DeError(<<"missing field">>) ELSE DeBox(box)
    ELSE LET field == FieldOf(Head(fields)[1])
         IN  IF field = "ignored" THEN ErgoBoxFields(Tail(fields), box, seen)
             ELSE IF field \in seen THEN DeError(<<"duplicate field">>)
             ELSE LET next_field(b) ==
                          IF b.kind # "Ok" THEN b
                          ELSE ErgoBoxFields(Tail(fields), b.box, seen \union {field})
                  IN  next_field(SetField(box, field, Head(fields)[2]))

\* ErgoBoxFromJson's Deserialize
ErgoBoxFromJsonDeserialize(jv) ==
    IF jv.j # "obj" THEN DeError(<<"invalid type, expected a map">>)
    ELSE ErgoBoxFields(jv.fields, NoBox, {})

\* serde_json::from_str::<T>(json): T is ConstantHolder, NonMandatoryRegisters
\* or ErgoBoxFromJson
from_str(target, jv) ==
    CASE target = "ConstantHolder" -> ConstantHolderDeserialize(jv)
      [] target = "NonMandatoryRegisters" -> NonMandatoryRegistersDeserialize(jv)
      [] OTHER -> ErgoBoxFromJsonDeserialize(jv)

-----------------------------------------------------------------------------
(* The JSON documents the deserialization is run on *)

\* the longest literal, in characters
MaxHexLen == 4

\* digits that spell the type codes of Boolean, Byte and Coll[Byte] and the
\* bytes 0, 1, 255 among others, and a character that is no digit
HexChars == {"0", "1", "2", "e", "f", "g"}
LiteralStrings == SeqsUpTo(HexChars, MaxHexLen)

\* a literal as a bare string, as an object with rawValue alone, and as the
\* object of the explorer API, with its other members before and after
LiteralDocs ==
    {JStr(h) : h \in LiteralStrings}
    \union {JObj(<<<<"rawValue", JStr(h)>>>>) : h \in LiteralStrings}
    \union {JObj(<<<<"decodedValue", JStr(<<"1">>)>>, <<"rawValue", JStr(h)>>,
                   <<"valueType", JStr(<<"g">>)>>>>) : h \in LiteralStrings}
    \union {JNum(1), JObj(<<<<"valueType", JStr(<<"g">>)>>>>),
            JObj(<<<<"rawValue", JStr(<<"0", "1", "0", "1">>)>>,
                   <<"rawValue", JStr(<<"0", "1", "0", "0">>)>>>>),
            JObj(<<<<"rawValue", JNum(1)>>>>)}

\* the literals of the registers: well-formed ones in both spellings, the
\* single character "0", a character that is no digit, bytes that end early
RegisterLiterals ==
    {JStr(<<"0", "1", "0", "1">>), JStr(<<"0", "2", "f", "f">>),
     JObj(<<<<"rawValue", JStr(<<"0", "e", "0", "0">>)>>>>),
     JStr(<<"0">>), JStr(<<"0", "g">>), JStr(<<"0", "1">>)}
RegisterDocs ==
    {JObj(<<>>)}
    \union {JObj(<<<<"R4", a>>>>) : a \in RegisterLiterals}
    \union {JObj(<<<<"R4", a>>, <<"R5", b>>>>) : a \in RegisterLiterals, b \in RegisterLiterals}

ByteHex == {<<"0", "1">>, <<"f", "f">>}
DigestStrings == {Concat(bs) : bs \in [1..DigestSize -> ByteHex]}

\* the members of a box record but its two ids
BoxRest(regs, index) ==
    << <<"value", JNum(1)>>, <<"ergoTree", JStr(<<"0", "0">>)>>, <<"assets", JArr(0)>>,
       <<"creationHeight", JNum(2)>>, <<"additionalRegisters", regs>>,
       <<"index", JNum(index)>> >>

\* box records: the ids before the other members; the ids around them, with
\* members of no field; the box id under both of its names; no transaction id
BoxDocs ==
    UNION {
      { JObj(<<<<idn, JStr(bid)>>, <<txn, JStr(tid)>>>> \o BoxRest(regs, index)),
        JObj(<<<<"address", JStr(<<"g">>)>>, <<idn, JStr(bid)>>>> \o BoxRest(regs, index)
             \o <<<<txn, JStr(tid)>>, <<"mainChain", JNum(1)>>>>),
        JObj(<<<<"boxId", JStr(bid)>>, <<"id", JStr(bid)>>, <<txn, JStr(tid)>>>>
             \o BoxRest(regs, index)),
        JObj(<<<<idn, JStr(bid)>>>> \o BoxRest(regs, index)) } :
      idn \in {"boxId", "id"}, txn \in {"transactionId", "txId"},
      bid \in DigestStrings, tid \in DigestStrings,
      regs \in {JObj(<<>>), JObj(<<<<"R4", JStr(<<"0", "1", "0", "1">>)>>>>),
                JObj(<<<<"R4", JStr(<<"0">>)>>>>)},
      index \in {0, 1} }

\* the document handed to from_str::<target>
Doc(target, jv) == [target |-> target, doc |-> jv]
NoDoc == Doc("none", NoJson)

-----------------------------------------------------------------------------
(* Deserializing a document *)

JsonIdle == json = NoDoc /\ decoded = NoDecoded /\ jpc = "idle"

JsonInit == json = NoDoc /\ decoded = NoDecoded /\ jpc = "start"

\* a literal is handed in
GiveLiteral ==
    /\ jpc = "start"
    /\ \E jv \in LiteralDocs : json' = Doc("ConstantHolder", jv)
    /\ jpc' = "given"
    /\ UNCHANGED <<decoded, evalVars, constVars, codecVars>>

\* a register map is handed in
GiveRegisters ==
    /\ jpc = "start"
    /\ \E jv \in RegisterDocs : json' = Doc("NonMandatoryRegisters", jv)
    /\ jpc' = "given"
    /\ UNCHANGED <<decoded, evalVars, constVars, codecVars>>

\* a box record is handed in
GiveBox ==
    /\ jpc = "start"
    /\ \E jv \in BoxDocs : json' = Doc("ErgoBoxFromJson", jv)
    /\ jpc' = "given"
    /\ UNCHANGED <<decoded, evalVars, constVars, codecVars>>

\* serde_json::from_str(json)
Deserialize ==
    /\ jpc = "given"
    /\ decoded' = from_str(json.target, json.doc)
    /\ jpc' = "decoded"
    /\ UNCHANGED <<json, evalVars, constVars, codecVars>>

JsonNext == GiveLiteral \/ GiveRegisters \/ GiveBox \/ Deserialize

-----------------------------------------------------------------------------
(* Specifications *)

InitEval == EvalInit /\ ConstIdle /\ CodecIdle /\ JsonIdle
InitConst == EvalIdle /\ ConstInit /\ CodecIdle /\ JsonIdle
InitCodec == EvalIdle /\ ConstIdle /\ CodecInit /\ JsonIdle
InitJson == EvalIdle /\ ConstIdle /\ CodecIdle /\ JsonInit

SpecEval == InitEval /\ [][EvalNext]_vars
SpecConst == InitConst /\ [][ConstNext]_vars
SpecCodec == InitCodec /\ [][CodecNext]_vars
SpecJson == InitJson /\ [][JsonNext]_vars

-----------------------------------------------------------------------------
(* Properties of the Upcast evaluation *)

\* the place of a numeric type in Byte < Short < Int < Long < BigInt
Rank(tpe) ==
    CASE tpe = SByte -> 1 [] tpe = SShort -> 2 [] tpe = SInt -> 3 [] tpe = SLong -> 4
      [] tpe = SBigInt -> 5 [] OTHER -> 0

\* the input of the node under evaluation has evaluated to a value
InputEvaluated == epc = "done" /\ input_v.r.kind = "Ok"

\* C3: an Upcast whose input evaluates to a numeric value v of width W, with
\* a target W' at or above W, succeeds with a value of width W' denoting the
\* same number as v; with W' = W it yields v unchanged.
C3_UpcastWidens ==
    (/\ InputEvaluated
     /\ IsNumeric(input_v.r.v)
     /\ node.tpe \in NumericTypes
     /\ Rank(ValueTpe(input_v.r.v)) <= Rank(node.tpe))
    => /\ result.kind = "Ok"
       /\ ValueTpe(result.v) = node.tpe
       /\ node.tpe # SBigInt => Len(result.v.num) = Width(node.tpe)
       /\ SameNumber(result.v.num, input_v.r.v.num)
       /\ ValueTpe(input_v.r.v) = node.tpe => result.v = input_v.r.v

\* a negative Byte constant has been widened to Long
C3_Witness ==
    /\ InputEvaluated
    /\ node.kids[1].op = "Const"
    /\ input_v.r.v = ByteV(<<128>>)
    /\ node.tpe = SLong
    /\ result = Ok(LongV(<<255, 255, 255, 255, 255, 255, 255, 128>>))

\* C4: an Upcast whose input value is wider than the target, or is not
\* numeric, or whose target is not a numeric type, returns UnexpectedValue and
\* no value; and no successful Upcast changes the number it is given.
C4_NarrowingFails ==
    /\ (/\ InputEvaluated
        /\ \/ ~IsNumeric(input_v.r.v)
           \/ node.tpe \notin NumericTypes
           \/ Rank(ValueTpe(input_v.r.v)) > Rank(node.tpe))
       => /\ result.kind = "Err"
          /\ result.err = "UnexpectedValue"
          /\ result.v = NoValue
    /\ (InputEvaluated /\ result.kind = "Ok")
       => SameNumber(result.v.num, input_v.r.v.num)

\* a Long that does not fit an Int has been refused the target Int
C4_Witness ==
    /\ InputEvaluated
    /\ input_v.r.v = LongV(<<127, 255, 255, 255, 255, 255, 255, 128>>)
    /\ node.tpe = SInt
    /\ result.kind = "Err"

\* C5: after a successful Upcast evaluation the cost counter is strictly
\* greater than it was after the input's evaluation, and the counter never
\* passes the limit without the evaluation failing with CostExceeded.
C5_UpcastChargesCost ==
    /\ (epc = "done" /\ result.kind = "Ok") => ctx > input_v.cost
    /\ ctx <= CostLimit

-----------------------------------------------------------------------------
(* Properties of Constant and of the extraction *)

\* the value has the shape the host type ty extracts from
ShapeMatches(ty, v) ==
    CASE ty \in {VecI8, VecU8} -> v.variant = "CollByte"
      [] ty \in ScalarTypes \union OpaqueTypes -> v.variant = VariantOf(ty)
      [] OTHER -> /\ v.variant = "CollNonPrim"
                  /\ \A i \in 1..Len(v.items) : v.items[i].variant = VariantOf(ElemOf(ty))

\* the declared type is the type of the value's variant, elements included
TypeMatches(tpe, v) ==
    /\ ValueTpe(v) = tpe
    /\ v.variant = "CollNonPrim" => \A i \in 1..Len(v.items) : ValueTpe(v.items[i]) = v.elem_tpe

\* the host types C7 names
C7Types ==
    ScalarTypes \union {"EcPoint", "SigmaProp", VecI8} \union {VecOf(t) : t \in StoredNonPrimitive}

\* C7: extracting T from Constant::from(v), v a host value of a liftable type
\* T, succeeds and returns exactly v.
C7_ExtractReturnsHost ==
    (/\ kpc = "extracted"
     /\ host # NoHost
     /\ host.ty \in C7Types
     /\ extracted.ty = host.ty)
    => /\ extracted.kind = "Ok"
       /\ extracted.host = host

\* a Vec<i8> with a negative element has come back from its Constant
C7_Witness ==
    /\ kpc = "extracted"
    /\ host = HostVal(VecI8, <<>>, <<-128, 127>>, <<>>)
    /\ extracted = Extracted(VecI8, host)

\* C8: extracting a host type T from a Constant whose value has another shape
\* returns a TryExtractFromError that names T as the expected host type and
\* carries the value found; no value is returned.
C8_MismatchErrorNamesBoth ==
    (kpc = "extracted" /\ ~ShapeMatches(extracted.ty, c.v))
    => /\ extracted.kind = "Err"
       /\ extracted.host = NoHost
       /\ extracted.expected = extracted.ty
       /\ extracted.found = c.v

\* C9: every Constant that has been built has a declared type that matches
\* the variant of its value.
C9_ConstantTypeMatches ==
    kpc \in {"built", "extracted"} => TypeMatches(c.tpe, c.v)

-----------------------------------------------------------------------------
(* Properties of the codec *)

\* the buffer written from expr has been read back whole
RoundTrips ==
    /\ parsed.kind = "Ok"
    /\ parsed.nodes = <<expr>>
    /\ parsed.rest = <<>>

\* C1: decoding the bytes written for an And or an Upcast node gives the node
\* back; And writes its input alone, Upcast its input and then its type.
C1_AndUpcastRoundTrip ==
    /\ (cpc = "parsed" /\ expr.op \in {"And", "Upcast"}) => RoundTrips
    /\ (cpc = "written" /\ expr.op = "And")
       => buf = <<OpCodeAND>> \o ExprSerialize(expr.kids[1])
    /\ (cpc = "written" /\ expr.op = "Upcast")
       => buf = <<OpCodeUPCAST>> \o ExprSerialize(expr.kids[1]) \o STypeSerialize(expr.tpe)

\* an Upcast of an And node has been written and read back
C1_Witness ==
    /\ cpc = "parsed"
    /\ expr = UpcastE(AndE(ConstE(SColl(SBoolean),
                                  CollNonPrimV(SBoolean, <<BooleanV(TRUE), BooleanV(FALSE)>>))),
                      SInt)
    /\ parsed.nodes = <<expr>>

UnknownIdsInBuf ==
    /\ Len(buf) >= 3
    /\ buf[1] = OpCodeMETHOD_CALL
    /\ ~KnownIds(buf[2], buf[3])

\* C6: decoding any bytes gives a node or a typed SerializationError, never a
\* panic; ids that name no method give a typed error.
C6_DecodeTotal ==
    cpc \in {"parsed", "parsed_damaged"}
    => /\ parsed.kind \in {"Ok", "Err"}
       /\ UnknownIdsInBuf => parsed.kind = "Err"

HasTypeVar(tpe) == \E i \in 1..Len(tpe) : tpe[i] = "STypeVar"

\* the type of a receiver of the model: a constant's, or the context's
ReceiverTpe(obj) == IF obj.op = "Const" THEN obj.tpe ELSE SContext

\* the type id of the owner of the methods of a type
TypeIdOf(tpe) ==
    CASE tpe[1] = "SColl" -> SCollTypeId
      [] tpe = SContext -> SContextTypeId
      [] tpe = SBox -> SBoxTypeId
      [] OTHER -> 0

\* the signature with the receiver's element type in place of the parameter
Substituted(sig, receiver_tpe) ==
    IF sig = STypeVar /\ receiver_tpe[1] = "SColl" THEN Tail(receiver_tpe) ELSE sig

\* C10: the type a decoded MethodCall reports for a receiver of a concrete
\* type is the declared signature with the receiver's type parameters put
\* in, and holds no type parameter.
C10_MethodCallTpeSubstituted ==
    (/\ cpc = "parsed"
     /\ parsed.kind = "Ok"
     /\ parsed.nodes[1].op = "MethodCall"
     /\ parsed.nodes[1].kids[1].op \in {"Const", "Context"}
     /\ TypeIdOf(ReceiverTpe(parsed.nodes[1].kids[1])) = parsed.nodes[1].method.obj_type)
    => LET mc == parsed.nodes[1]
       IN  /\ ~HasTypeVar(MethodCall_tpe(mc))
           /\ MethodCall_tpe(mc) = Substituted(mc.method.tpe, ReceiverTpe(mc.kids[1]))

RECURSIVE NodesWellTyped(_)
\* no Upcast in e has a target that is not numeric or is narrower than its
\* input's type, and no And in e has an input that is not a Coll[Boolean]
NodesWellTyped(e) ==
    /\ e.op = "Upcast"
       => /\ e.tpe \in NumericTypes
          /\ Expr_tpe(e.kids[1]) \in NumericTypes
             => Rank(Expr_tpe(e.kids[1])) <= Rank(e.tpe)
    /\ e.op = "And" => Expr_tpe(e.kids[1]) = SColl(SBoolean)
    /\ \A i \in 1..Len(e.kids) : NodesWellTyped(e.kids[i])

\* C11: every Upcast and And node that a decode returns is well typed: the
\* target of an Upcast is numeric and not narrower than its input's type, and
\* the input of an And is a collection of Boolean.
C11_DecodedNodesWellTyped ==
    (cpc \in {"parsed", "parsed_damaged"} /\ parsed.kind = "Ok")
    => NodesWellTyped(parsed.nodes[1])

-----------------------------------------------------------------------------
(* Properties of the JSON forms *)

\* the sixteen digits of base 16, in the order of their values
Digits == <<"0", "1", "2", "3", "4", "5", "6", "7", "8", "9", "a", "b", "c", "d", "e", "f">>
DigitValue(ch) == (CHOOSE k \in 1..16 : Digits[k] = ch) - 1
\* h is an even number of digits
IsHexString(h) ==
    /\ Len(h) % 2 = 0
    /\ \A i \in 1..Len(h) : \E k \in 1..16 : Digits[k] = h[i]
\* the bytes that h encodes
BytesOfHex(h) ==
    [i \in 1..(Len(h) \div 2) |-> 16 * DigitValue(h[2 * i - 1]) + DigitValue(h[2 * i])]

\* the members of an object named key
MembersNamed(jv, key) == {i \in 1..Len(jv.fields) : jv.fields[i][1] = key}

\* jv is a literal: a bare string, or an object with one string under rawValue
IsLiteral(jv) ==
    \/ jv.j = "str"
    \/ /\ jv.j = "obj"
       /\ Cardinality(MembersNamed(jv, "rawValue")) = 1
       /\ \A i \in MembersNamed(jv, "rawValue") : jv.fields[i][2].j = "str"
\* the hex string the literal carries
RawValue(jv) ==
    IF jv.j = "str" THEN jv.s
    ELSE jv.fields[CHOOSE i \in MembersNamed(jv, "rawValue") : TRUE][2].s

LiteralDecoded == jpc = "decoded" /\ json.target = "ConstantHolder"

\* C12: a literal decodes as the bare string of its hex h does and as the
\* object with h under rawValue does, whatever other members it has; and
\* when it decodes, to the Constant parsed from the bytes that h encodes.
C12_BothSpellingsSameConstant ==
    (LiteralDecoded /\ IsLiteral(json.doc))
    => LET h == RawValue(json.doc)
           bare == ConstantHolderDeserialize(JStr(h))
           rich == ConstantHolderDeserialize(JObj(<<<<"rawValue", JStr(h)>>>>))
       IN  /\ decoded.kind = bare.kind /\ decoded.c = bare.c
           /\ decoded.kind = rich.kind /\ decoded.c = rich.c
           /\ decoded.kind = "Ok"
              => /\ IsHexString(h)
                 /\ Constant_sigma_parse_bytes(BytesOfHex(h)).kind = "Ok"
                 /\ decoded.c = Constant(Constant_sigma_parse_bytes(BytesOfHex(h)).tpe,
                                         Constant_sigma_parse_bytes(BytesOfHex(h)).v)
           /\ (IsHexString(h) /\ Constant_sigma_parse_bytes(BytesOfHex(h)).kind = "Ok")
              => decoded.kind = "Ok"

\* the Byte -1 has been decoded from an object that carries it under rawValue
\* between two other members
C12_Witness ==
    /\ LiteralDecoded
    /\ json.doc.j = "obj"
    /\ Len(json.doc.fields) = 3
    /\ RawValue(json.doc) = <<"0", "2", "f", "f">>
    /\ decoded = DeConstant(Constant(SByte, ByteV(<<255>>)))

\* jv is a literal whose string is not hex, or is the hex of bytes that are
\* not the encoding of a Constant
BadLiteral(jv) ==
    /\ IsLiteral(jv)
    /\ \/ ~IsHexString(RawValue(jv))
       \/ Constant_sigma_parse_bytes(BytesOfHex(RawValue(jv))).kind # "Ok"

\* the register map jv has a bad literal among its registers
BadRegisters(jv) ==
    /\ jv.j = "obj"
    /\ \E i \in 1..Len(jv.fields) : BadLiteral(jv.fields[i][2])

\* C13: a literal that is not hex, or not the hex of a Constant's encoding,
\* fails to decode, and fails the register map and the box record it is in:
\* the outcome is an error, never a panic, and holds no Constant, no
\* register and no box.
C13_BadLiteralFailsRecord ==
    /\ jpc = "decoded" => decoded.kind \in {"Ok", "Err"}
    /\ (LiteralDecoded /\ BadLiteral(json.doc))
       => decoded = DeError(decoded.msg)
    /\ (jpc = "decoded" /\ json.target = "NonMandatoryRegisters" /\ BadRegisters(json.doc))
       => decoded = DeError(decoded.msg)
    /\ (/\ jpc = "decoded" /\ json.target = "ErgoBoxFromJson"
        /\ \E i \in MembersNamed(json.doc, "additionalRegisters") :
              BadRegisters(json.doc.fields[i][2]))
       => decoded = DeError(decoded.msg)

\* a register map whose R4 is well formed and whose R5 is the single
\* character "0" has failed to decode
C13_Witness ==
    /\ jpc = "decoded"
    /\ json = Doc("NonMandatoryRegisters",
                  JObj(<<<<"R4", JStr(<<"0", "1", "0", "1">>)>>, <<"R5", JStr(<<"0">>)>>>>))
    /\ decoded.kind = "Err"

BoxIdNames == {"boxId", "id"}
TransactionIdNames == {"transactionId", "txId"}

\* the members with the box id spelled idn and the transaction id spelled txn
Respell(fields, idn, txn) ==
    [i \in 1..Len(fields) |->
        <<IF fields[i][1] \in BoxIdNames THEN idn
          ELSE IF fields[i][1] \in TransactionIdNames THEN txn
          ELSE fields[i][1],
          fields[i][2]>>]

BoxDecoded == jpc = "decoded" /\ json.target = "ErgoBoxFromJson"

\* C14: a box record decodes to the same outcome under each of the four
\* spellings of its box id and its transaction id; when it decodes, the box
\* holds the ids that the record carries under the names in use.
C14_AliasesSameBox ==
    BoxDecoded
    => /\ \A idn \in BoxIdNames, txn \in TransactionIdNames :
             ErgoBoxFromJsonDeserialize(JObj(Respell(json.doc.fields, idn, txn))) = decoded
       /\ decoded.kind = "Ok"
          => /\ \A i \in 1..Len(json.doc.fields) :
                   /\ json.doc.fields[i][1] \in BoxIdNames
                      => decoded.box.box_id = BytesOfHex(json.doc.fields[i][2].s)
                   /\ json.doc.fields[i][1] \in TransactionIdNames
                      => decoded.box.transaction_id = BytesOfHex(json.doc.fields[i][2].s)
             /\ \E i \in 1..Len(json.doc.fields) : json.doc.fields[i][1] \in BoxIdNames
             /\ \E i \in 1..Len(json.doc.fields) : json.doc.fields[i][1] \in TransactionIdNames

\* a box record with its ids under "id" and "txId" has decoded to a box
C14_Witness ==
    /\ BoxDecoded
    /\ \E i \in 1..Len(json.doc.fields) : json.doc.fields[i][1] = "id"
    /\ \E i \in 1..Len(json.doc.fields) : json.doc.fields[i][1] = "txId"
    /\ decoded.kind = "Ok"
    /\ decoded.box.box_id = [i \in 1..DigestSize |-> 255]
    /\ decoded.box.transaction_id = [i \in 1..DigestSize |-> 1]

RECURSIVE Text(_)
\* the characters of h as one string
Text(h) == IF h = <<>> THEN "" ELSE Head(h) \o Text(Tail(h))

\* the message has the fragment x
Mentions(msg, x) == \E i \in 1..Len(msg) : msg[i] = x

\* C16: when a literal given as a string fails to parse, the error reported
\* has the words of the ConstantParsingError variant that from_str returned
\* (DecodeError or DeserializationError), and has the string that failed.
C16_ParseErrorKeepsKind ==
    (/\ LiteralDecoded
     /\ json.doc.j = "str"
     /\ RichConstant_from_str(json.doc.s).kind = "Err")
    => /\ decoded.kind = "Err"
       /\ Mentions(decoded.msg,
                   ConstantParsingErrorDisplay(RichConstant_from_str(json.doc.s))[1])
       /\ Mentions(decoded.msg, Text(json.doc.s))

-----------------------------------------------------------------------------
(* More properties of the Upcast evaluation *)

\* the target type that the text of an Upcast error names, if any
NamedTarget(text) ==
    CASE text = "Upcast: cannot upcast {0:?} to BigInt" -> SBigInt
      [] text = "Upcast: cannot upcast {0:?} to Long" -> SLong
      [] text = "Upcast: cannot upcast {0:?} to Int" -> SInt
      [] text = "Upcast: cannot upcast {0:?} to Short" -> SShort
      [] text = "Upcast: cannot upcast {0:?} to Byte" -> SByte
      [] OTHER -> NoType

\* C15: when an Upcast fails on its input value and target type, the
\* UnexpectedValue error carries the input value and names the node's target
\* type, whichever the target is.
C15_ErrorNamesSourceAndTarget ==
    (InputEvaluated /\ result.kind = "Err")
    => /\ result.err = "UnexpectedValue"
       /\ result.arg = input_v.r.v
       /\ NamedTarget(result.text) = node.tpe

\* C17: Upcast::eval evaluates its input first and once, from the cost the
\* evaluation started with. If the input fails, the Upcast's result is the
\* input's error and nothing else happens, whatever the target; only if the
\* input succeeds is the rule of the target applied, to the input's value.
C17_InputFirstAndOnce ==
    /\ epc = "done" => input_v.r.kind \in {"Ok", "Err"}
    /\ epc = "input_done" => (input_v.r.kind = "Ok" /\ result = NoResult)
    /\ (epc = "done" /\ input_v.r.kind = "Err")
       => (result = input_v.r /\ ctx = input_v.cost)
    /\ (epc = "done" /\ input_v.r.kind = "Ok")
       => (result = UpcastMatchTpe(node.tpe, input_v.r.v) /\ ctx = input_v.cost)
    /\ epc \in {"input_done", "done"}
       => \E cost \in 0..CostLimit :
             /\ input_v = ExprEval(node.kids[1], cost)
             /\ epc = "done" => Outcome(result, ctx) = UpcastEval(node, cost)

\* an Upcast to Box, no numeric type, whose input is an Upcast of a Long to
\* Short, has failed with the error of its input
C17_Witness ==
    /\ epc = "done"
    /\ node.tpe = SBox
    /\ node.kids[1].op = "Upcast"
    /\ input_v.r.kind = "Err"
    /\ result = input_v.r
    /\ result.text = "Upcast: cannot upcast {0:?} to Short"

\* C19: the value of a successful Upcast evaluation is of the variant, and of
\* the width, of the type the node reports with tpe(), one of the numeric
\* types.
C19_ResultVariantIsTpe ==
    (epc = "done" /\ result.kind = "Ok")
    => /\ Upcast_tpe(node) \in NumericTypes
       /\ result.v.variant = VariantOfType(Upcast_tpe(node))
       /\ Upcast_tpe(node) # SBigInt => Len(result.v.num) = Width(Upcast_tpe(node))
       /\ Upcast_tpe(node) = SBigInt => result.v.num = Canon(result.v.num)

\* a Byte has come out of an Upcast to Short as a Short
C19_Witness ==
    /\ epc = "done"
    /\ Upcast_tpe(node) = SShort
    /\ input_v.r.v = ByteV(<<128>>)
    /\ result = Ok(ShortV(<<255, 128>>))

-----------------------------------------------------------------------------
(* More properties of the codec *)

\* the reads of a MethodCall decode on r, each on what the one before left:
\* the owner's type id, the method id, the receiver, the count of arguments,
\* the arguments; a read after a failed one is that failure
MethodCallReads(r) ==
    LET type_id == get_u8(r)
        method_id == IF type_id.kind = "Ok" THEN get_u8(type_id.rest) ELSE type_id
        obj == IF method_id.kind = "Ok" THEN ExprParse(method_id.rest) ELSE method_id
        args_count == IF obj.kind = "Ok" THEN get_u32(obj.rest) ELSE obj
        args == IF args_count.kind = "Ok"
                THEN ParseArgs(args_count.rest, args_count.n) ELSE args_count
    IN  <<type_id, method_id, obj, args_count, args>>

\* the reads of an Upcast decode on r: the input, the target type
UpcastReads(r) ==
    LET input == ExprParse(r)
        tpe == IF input.kind = "Ok" THEN STypeParse(input.rest) ELSE input
    IN  <<input, tpe>>

\* the buffer is a cut of the bytes written for expr
Truncated ==
    /\ cpc = "parsed_damaged"
    /\ Len(buf) < Len(ExprSerialize(expr))
    /\ buf = Take(ExprSerialize(expr), Len(buf))

\* C18: a MethodCall decode is its five reads in their order; when one of
\* them fails the decode's outcome is that failure and no node, and a
\* MethodCall that is returned has the receiver read and as many arguments as
\* the count read. An Upcast decode is its two reads, the same way; and no
\* cut of the bytes of a MethodCall or an Upcast decodes to a node.
C18_DecodeAbortsOnFailedRead ==
    /\ (cpc \in {"parsed", "parsed_damaged"} /\ buf # <<>> /\ buf[1] = OpCodeMETHOD_CALL)
       => LET rd == MethodCallReads(Tail(buf))
          IN  IF rd[5].kind # "Ok"
              THEN parsed = rd[5] /\ parsed.nodes = <<>>
              ELSE parsed.kind = "Ok"
                   => /\ parsed.nodes[1].op = "MethodCall"
                      /\ parsed.nodes[1].method.obj_type = rd[1].n
                      /\ parsed.nodes[1].method.method_id = rd[2].n
                      /\ parsed.nodes[1].kids = rd[3].nodes \o rd[5].nodes
                      /\ Len(parsed.nodes[1].kids) - 1 = rd[4].n
                      /\ parsed.rest = rd[5].rest
    /\ (cpc \in {"parsed", "parsed_damaged"} /\ buf # <<>> /\ buf[1] = OpCodeUPCAST)
       => LET rd == UpcastReads(Tail(buf))
          IN  IF rd[2].kind # "Ok"
              THEN parsed = rd[2] /\ parsed.nodes = <<>>
              ELSE parsed = OkNodes(<<UpcastE(rd[1].nodes[1], rd[2].tpe)>>, rd[2].rest)
    /\ (Truncated /\ expr.op \in {"MethodCall", "Upcast"})
       => parsed.kind = "Err" /\ parsed.nodes = <<>>

-----------------------------------------------------------------------------
(* More properties of Constant *)

\* the signed byte of the bit pattern of the unsigned byte b
Wrapped(b) == IF b >= 128 THEN b - 256 ELSE b

\* C20: Constant::from of a Vec<u8> is of type Coll[Byte] and holds, packed,
\* the wrapped signed byte of each element; it is the Constant::from of the
\* Vec<i8> of the same bit patterns; and extracting Vec<u8> from it returns
\* the vector it was built from.
C20_VecU8RoundTrip ==
    /\ (kpc \in {"built", "extracted"} /\ host.ty = VecU8)
       => /\ c.tpe = SColl(SByte)
          /\ c.v = CollByteV([i \in 1..Len(host.bytes) |-> Wrapped(host.bytes[i])])
          /\ c = ConstantFrom(HostVal(VecI8, <<>>,
                                      [i \in 1..Len(host.bytes) |-> Wrapped(host.bytes[i])],
                                      <<>>))
    /\ (kpc = "extracted" /\ host.ty = VecU8 /\ extracted.ty = VecU8)
       => extracted = Extracted(VecU8, host)

\* the bytes 128 and 255 have been stored as -128 and -1 and have come back
C20_Witness ==
    /\ kpc = "extracted"
    /\ host = HostVal(VecU8, <<>>, <<128, 255>>, <<>>)
    /\ c.v.bytes = <<-128, -1>>
    /\ extracted = Extracted(VecU8, host)

\* C21: extraction reads the value of a Constant and never its declared type:
\* what was extracted is what extracting the same host type gives from the
\* Constant of the same value under any other declared type, and it is a
\* value exactly when the value has the shape the host type extracts from.
C21_ExtractionIgnoresTpe ==
    kpc = "extracted"
    => /\ \A tpe \in LiteralTypes :
             try_extract_from(extracted.ty, Constant(tpe, c.v)) = extracted
       /\ extracted.kind = "Ok" <=> ShapeMatches(extracted.ty, c.v)

\* an i32 has been extracted from a Constant declared Boolean that holds an Int
C21_Witness ==
    /\ kpc = "extracted"
    /\ c.tpe = SBoolean
    /\ c.v.variant = "Int"
    /\ ~TypeMatches(c.tpe, c.v)
    /\ extracted.ty = "i32"
    /\ extracted.kind = "Ok"
    /\ try_extract_from("i32", Constant(SInt, c.v)) = extracted

====
